---- MODULE Spec2Model ----
(***************************************************************************)
(* ExpenseTracker: the ledger (core/expense_tracker.py, class              *)
(* ExpenseTracker), the HTTP handler that creates expenses (web/app.py)    *)
(* and the settlement engine (calculate_settlements).                      *)
(*                                                                         *)
(* Money is a Python float in the program.  Here it is an integer number   *)
(* of ticks of 0.001 currency unit, so that the literal 0.01 the program   *)
(* compares against is TOL ticks and sub-cent amounts exist.  A float      *)
(* division is a division rounded to the nearest tick: it is inexact, as   *)
(* in the program, and its error stays far below the 0.01 tolerance.       *)
(***************************************************************************)
EXTENDS Integers, Sequences, FiniteSets, TLC

\* the literal 0.01 of the program, in ticks
TOL == 10
Dollar == 100 * TOL

\* bounds of the model
MaxExpenses == 1
MaxList == 2
MaxDict == 2
MaxRows == 3
MaxWideRows == 5

NoneVal == "None"
Names == {"Alice", "Bob"}
\* lexicographic order of the names (GROUP BY / merge order)
NameSeq == <<"Alice", "Bob", "Charlie", "Dave", "Eve">>
Amounts == {0 - 10 * Dollar, 30 * Dollar, 70 * Dollar}
\* the values of a name->amount mapping that are ints or floats
ShareVals == {0 - 10 * Dollar, 0, 40 * Dollar, 30 * Dollar + 5}
\* the values of a mapping that are of a numeric type sqlite3 cannot bind
\* (fractions.Fraction, numpy.float32): Fraction(40)
FractionVals == {40 * Dollar}
\* whole amounts, for frames of more members
WideVals == {5 * Dollar, 4 * Dollar, 0 - 4 * Dollar, 0 - 3 * Dollar, 0 - 2 * Dollar}
BalVals == {0 - 30 * Dollar, 0 - 20 * Dollar, 50 * Dollar, 0, 15, 0 - 10, 0 - 5, 4}

VARIABLES
    Member,     \* table Member as a sequence of names; member_id = index
    Expenses,   \* table Expenses as the tracker's connection sees it
    Splits,     \* table Splits as the tracker's connection sees it
    durableE,   \* number of Expenses rows that are committed
    durableS,   \* number of Splits rows that are committed
    ret,        \* the last operation and what its caller observed
    add_pc,         \* add_expense, statement by statement: its position
    lastrowid,      \* add_expense: local expense_id (cursor.lastrowid)
    pending_rows,   \* add_expense: local splits_to_insert
    reader_pc,      \* a GET request on a connection of its own: its position
    read_expenses,  \* the request: the Expenses rows its query returned
    read_splits,    \* the request: the Splits rows of each of its queries
    balances_df,    \* calculate_settlements: its argument
    debtors_list,   \* calculate_settlements: local debtors_list
    creditors_list, \* calculate_settlements: local creditors_list
    settlements,    \* calculate_settlements: local settlements
    pc              \* calculate_settlements: position

connVars == <<add_pc, lastrowid, pending_rows, reader_pc, read_expenses, read_splits>>
ledgerVars == <<Member, Expenses, Splits, durableE, durableS, ret,
                add_pc, lastrowid, pending_rows, reader_pc, read_expenses, read_splits>>
settleVars == <<balances_df, debtors_list, creditors_list, settlements, pc>>
vars == <<Member, Expenses, Splits, durableE, durableS, ret,
          add_pc, lastrowid, pending_rows, reader_pc, read_expenses, read_splits,
          balances_df, debtors_list, creditors_list, settlements, pc>>

----------------------------------------------------------------------------
\* helpers

Abs(x) == IF x < 0 THEN 0 - x ELSE x

Min(a, b) == IF a < b THEN a ELSE b

Range(s) == {s[i] : i \in DOMAIN s}

RECURSIVE SeqSum(_)
SeqSum(s) == IF s = <<>> THEN 0 ELSE Head(s) + SeqSum(Tail(s))

\* the equal share with the division forgotten: equal_share = amount
FloatDiv_undivided(a, n) == a

\* a / n on floats: the quotient rounded to the nearest tick
FloatDiv(a, n) == (2 * a + n) \div (2 * n)

SeqsUpTo(S, n) == UNION {[1..k -> S] : k \in 0..n}

NameIndex(name) == CHOOSE i \in DOMAIN NameSeq : NameSeq[i] = name

\* the names of a set, in lexicographic order
RECURSIVE SortedNames(_)
SortedNames(S) ==
    IF S = {} THEN <<>>
    ELSE LET first == CHOOSE n \in S : \A m \in S : NameIndex(n) <= NameIndex(m)
         IN  <<first>> \o SortedNames(S \ {first})

\* {name: value for ...}: a later entry for a key already present replaces
\* the value and keeps the key's position
RECURSIVE DictFromPairs(_)
DictFromPairs(pairs) ==
    IF pairs = <<>> THEN <<>>
    ELSE LET front == DictFromPairs(SubSeq(pairs, 1, Len(pairs) - 1))
             last == pairs[Len(pairs)]
         IN  IF \E i \in DOMAIN front : front[i].name = last.name
             THEN [i \in DOMAIN front |->
                     IF front[i].name = last.name THEN last ELSE front[i]]
             ELSE Append(front, last)

----------------------------------------------------------------------------
\* the shapes of the shares argument

SharesNone == [kind |-> "none", names |-> <<>>, items |-> <<>>]

SharesList(names) == [kind |-> "list", names |-> names, items |-> <<>>]

\* items: the mapping in insertion order; bindable = FALSE marks a value of
\* a numeric type sqlite3 cannot bind (fractions.Fraction, numpy.float32)
SharesDict(items) == [kind |-> "dict", names |-> <<>>, items |-> items]

SharesOther == [kind |-> "other", names |-> <<>>, items |-> <<>>]

FloatEntries == [name : Names, share : ShareVals, bindable : {TRUE}]

FractionEntries == [name : Names, share : FractionVals, bindable : {FALSE}]

\* the mappings over a set of entries: no key twice
DictItems(entries) ==
    {it \in SeqsUpTo(entries, MaxDict) :
        \A i, j \in DOMAIN it : i # j => it[i].name # it[j].name}

\* what a Python caller of the core can pass
CoreShares ==
    {SharesNone, SharesOther}
    \cup {SharesList(l) : l \in SeqsUpTo(Names, MaxList)}
    \cup {SharesDict(it) : it \in DictItems(FloatEntries \cup FractionEntries)}

\* what a JSON body can carry: every number of a JSON body is an int or a float
JsonShares ==
    {SharesNone, SharesOther}
    \cup {SharesList(l) : l \in SeqsUpTo(Names, MaxList)}
    \cup {SharesDict(it) : it \in DictItems(FloatEntries)}

----------------------------------------------------------------------------
\* ExpenseTracker._calculate_shares: the final mapping (in insertion order)
\* or the error it raises
_calculate_shares(amount, members, shares) ==
    IF shares.kind = "none" THEN
        IF members = <<>> THEN [err |-> "NoMembers", final_shares |-> <<>>]
        ELSE [err |-> "",
              final_shares |-> DictFromPairs(
                  [i \in DOMAIN members |->
                      [name |-> members[i],
                       share |-> FloatDiv(amount, Len(members)),
                       bindable |-> TRUE]])]
    ELSE IF shares.kind = "list" THEN
        IF shares.names = <<>> THEN [err |-> "EmptyParticipants", final_shares |-> <<>>]
        ELSE [err |-> "",
              final_shares |-> DictFromPairs(
                  [i \in DOMAIN shares.names |->
                      [name |-> shares.names[i],
                       share |-> FloatDiv(amount, Len(shares.names)),
                       bindable |-> TRUE]])]
    ELSE IF shares.kind = "dict" THEN
        LET total_share_amount ==
                SeqSum([i \in DOMAIN shares.items |-> shares.items[i].share])
        IN  IF ~(Abs(total_share_amount - amount) < TOL)
            THEN [err |-> "ShareMismatch", final_shares |-> <<>>]
            ELSE [err |-> "", final_shares |-> shares.items]
    ELSE [err |-> "InvalidShares", final_shares |-> <<>>]

MemberId(members, name) == CHOOSE i \in DOMAIN members : members[i] = name

\* the rows of splits_to_insert: the entries with share > 0, in order
splits_to_insert(expense_id, members, final_shares) ==
    LET kept == SelectSeq(final_shares, LAMBDA e : e.share > 0)
    IN  [i \in DOMAIN kept |->
            [expense_id |-> expense_id,
             member_id |-> MemberId(members, kept[i].name),
             share_amount |-> kept[i].share,
             bindable |-> kept[i].bindable]]

SplitRow(r) == [expense_id |-> r.expense_id, member_id |-> r.member_id,
                share_amount |-> r.share_amount]

\* cursor.executemany: the rows are inserted one by one, and the first row
\* that cannot be bound raises sqlite3.Error after the rows before it
executemany(rows) ==
    LET bad == {i \in DOMAIN rows : ~rows[i].bindable}
        stop == IF bad = {} THEN Len(rows) + 1
                ELSE CHOOSE i \in bad : \A j \in bad : i <= j
    IN  [inserted |-> SubSeq([i \in DOMAIN rows |-> SplitRow(rows[i])], 1, stop - 1),
         failed |-> bad # {}]

\* the body of add_expense on a connection that sees the tables E and S:
\* the tables after the call, whether the call committed, and the error
\* that add_expense caught and printed ("" when none)
add_expense_body(members, E, S, amount, paid_by_name, shares) ==
    LET calc == _calculate_shares(amount, members, shares)
        final_shares == calc.final_shares
        unknown == {i \in DOMAIN final_shares : final_shares[i].name \notin Range(members)}
        expense_id == Len(E) + 1
        rows == splits_to_insert(expense_id, members, final_shares)
        ins == executemany(rows)
        newE == Append(E, [expense_id |-> expense_id, amount |-> amount,
                           paid_by_id |-> MemberId(members, paid_by_name)])
    IN  IF calc.err # "" THEN [E |-> E, S |-> S, committed |-> FALSE, err |-> calc.err]
        ELSE IF paid_by_name \notin Range(members)
        THEN [E |-> E, S |-> S, committed |-> FALSE, err |-> "PayerNotFound"]
        ELSE IF unknown # {}
        THEN [E |-> E, S |-> S, committed |-> FALSE, err |-> "ParticipantNotFound"]
        ELSE IF ins.failed
        THEN [E |-> newE, S |-> S \o ins.inserted, committed |-> FALSE, err |-> "sqlite3.Error"]
        ELSE [E |-> newE, S |-> S \o ins.inserted, committed |-> TRUE, err |-> ""]

----------------------------------------------------------------------------
\* ExpenseTracker.get_net_balances

\* paid_df with the join condition on the wrong column
\* (M.member_id = E.expense_id)
paid_df_wrong_join(members, E) ==
    [name \in Range(members) |->
        LET mine == SelectSeq(E, LAMBDA e : e.expense_id = MemberId(members, name))
        IN  SeqSum([i \in DOMAIN mine |-> mine[i].amount])]

\* SELECT M.name, COALESCE(SUM(E.amount), 0) FROM Member M LEFT JOIN Expenses E
\* ON M.member_id = E.paid_by_id GROUP BY M.name
paid_df(members, E) ==
    [name \in Range(members) |->
        LET mine == SelectSeq(E, LAMBDA e : e.paid_by_id = MemberId(members, name))
        IN  SeqSum([i \in DOMAIN mine |-> mine[i].amount])]

\* SELECT M.name, COALESCE(SUM(S.share_amount), 0) FROM Member M LEFT JOIN Splits S
\* ON M.member_id = S.member_id GROUP BY M.name
owed_df(members, S) ==
    [name \in Range(members) |->
        LET mine == SelectSeq(S, LAMBDA s : s.member_id = MemberId(members, name))
        IN  SeqSum([i \in DOMAIN mine |-> mine[i].share_amount])]

\* pd.merge(paid_df, owed_df, on='name', how='outer').fillna(0) and the
\* net_balance column
get_net_balances(members, E, S) ==
    LET paid == paid_df(members, E)
        owed == owed_df(members, S)
        keys == SortedNames(DOMAIN paid \cup DOMAIN owed)
    IN  [i \in DOMAIN keys |->
            LET name == keys[i]
                total_paid == IF name \in DOMAIN paid THEN paid[name] ELSE 0
                total_owed == IF name \in DOMAIN owed THEN owed[name] ELSE 0
            IN  [name |-> name, total_paid |-> total_paid, total_owed |-> total_owed,
                 net_balance |-> total_paid - total_owed]]

----------------------------------------------------------------------------
\* the ledger's operations

\* op and via name the operation and its caller ("core": a Python caller of
\* the tracker, "http": a client of the web API); raised: an exception
\* reached the caller of the core operation; err: the error the operation
\* met ("" when none); status: the HTTP status; value: the frame returned
Ret(op, via, raised, err, status, value) ==
    [op |-> op, via |-> via, raised |-> raised, err |-> err, status |-> status,
     value |-> value]

LedgerInit ==
    /\ Member = <<>>
    /\ Expenses = <<>>
    /\ Splits = <<>>
    /\ durableE = 0
    /\ durableS = 0
    /\ ret = Ret("init", "core", FALSE, "", 0, <<>>)
    /\ add_pc = "idle"
    /\ lastrowid = 0
    /\ pending_rows = <<>>
    /\ reader_pc = "idle"
    /\ read_expenses = <<>>
    /\ read_splits = <<>>

\* ExpenseTracker.add_member on the tracker's connection
add_member(name) ==
    /\ IF name \in Range(Member)
       THEN \* sqlite3.IntegrityError: _managed_connection rolls back, add_member prints
            /\ Member' = Member
            /\ Expenses' = SubSeq(Expenses, 1, durableE)
            /\ Splits' = SubSeq(Splits, 1, durableS)
            /\ UNCHANGED <<durableE, durableS>>
            /\ ret' = Ret("add_member", "core", FALSE, "IntegrityError", 0, <<>>)
       ELSE \* INSERT and conn.commit(): the commit ends the open transaction
            /\ Member' = Append(Member, name)
            /\ durableE' = Len(Expenses)
            /\ durableS' = Len(Splits)
            /\ UNCHANGED <<Expenses, Splits>>
            /\ ret' = Ret("add_member", "core", FALSE, "", 0, <<>>)
    /\ UNCHANGED settleVars
    /\ UNCHANGED connVars

\* ExpenseTracker.add_expense on the tracker's connection
add_expense(amount, paid_by_name, shares) ==
    /\ Len(Expenses) < MaxExpenses
    /\ LET r == add_expense_body(Member, Expenses, Splits, amount, paid_by_name, shares)
       IN  /\ Expenses' = r.E
           /\ Splits' = r.S
           /\ durableE' = IF r.committed THEN Len(r.E) ELSE durableE
           /\ durableS' = IF r.committed THEN Len(r.S) ELSE durableS
           \* except (self.Error, sqlite3.Error): print; nothing is re-raised
           /\ ret' = Ret("add_expense", "core", FALSE, r.err, 0, <<>>)
    /\ UNCHANGED <<Member>>
    /\ UNCHANGED settleVars
    /\ UNCHANGED connVars

\* ExpenseTracker.get_net_balances on the tracker's connection
net_balances ==
    /\ ret' = Ret("get_net_balances", "core", FALSE, "", 0,
                  get_net_balances(Member, Expenses, Splits))
    /\ UNCHANGED <<Member, Expenses, Splits, durableE, durableS>>
    /\ UNCHANGED settleVars
    /\ UNCHANGED connVars

\* POST /api/expenses (create_expense under _with_tracker): a tracker of its
\* own is opened on the store, used for the one call and closed.
\* amount_tag: the JSON amount is a number, null (or absent), or a text that
\* float() rejects
create_expense(description, amount_tag, amount, paid_by, shares) ==
    /\ durableE < MaxExpenses
    /\ UNCHANGED <<Member>>
    /\ UNCHANGED settleVars
    /\ UNCHANGED connVars
    /\ IF description = NoneVal \/ amount_tag = "null" \/ paid_by = NoneVal
       THEN /\ ret' = Ret("add_expense", "http", FALSE, "MissingFields", 400, <<>>)
            /\ UNCHANGED <<Expenses, Splits, durableE, durableS>>
       ELSE IF amount_tag = "text"
       THEN \* float(amount) raises ValueError: except Exception answers 400
            /\ ret' = Ret("add_expense", "http", FALSE, "ValueError", 400, <<>>)
            /\ UNCHANGED <<Expenses, Splits, durableE, durableS>>
       ELSE LET \* the request's connection sees the committed rows only
                E == SubSeq(Expenses, 1, durableE)
                S == SubSeq(Splits, 1, durableS)
                r == add_expense_body(Member, E, S, amount, paid_by, shares)
                \* an open write transaction of the tracker's connection
                \* holds the store's write lock: INSERT raises
                \* sqlite3.OperationalError (database is locked)
                locked == durableE < Len(Expenses)
                wrote == Len(r.E) > Len(E)
            IN  IF wrote /\ locked
                THEN /\ ret' = Ret("add_expense", "http", FALSE, "sqlite3.Error", 201, <<>>)
                     /\ UNCHANGED <<Expenses, Splits, durableE, durableS>>
                ELSE IF r.committed
                THEN /\ Expenses' = r.E
                     /\ Splits' = r.S
                     /\ durableE' = Len(r.E)
                     /\ durableS' = Len(r.S)
                     /\ ret' = Ret("add_expense", "http", FALSE, "", 201, <<>>)
                ELSE \* tracker.close() discards what was not committed
                     /\ ret' = Ret("add_expense", "http", FALSE, r.err, 201, <<>>)
                     /\ UNCHANGED <<Expenses, Splits, durableE, durableS>>

----------------------------------------------------------------------------
\* add_expense statement by statement, and requests that read the store on
\* a connection of their own while it runs

\* the rows of a table that are committed: what another connection reads
Committed(table, durable) == SubSeq(table, 1, durable)

\* ORDER BY expense_id DESC
Reverse(s) == [i \in DOMAIN s |-> s[Len(s) + 1 - i]]

\* lines 110-133: the shares, the member ids and the INSERT into Expenses
add_expense_insert(amount, paid_by_name, shares) ==
    /\ add_pc = "idle"
    /\ Len(Expenses) < MaxExpenses
    /\ LET calc == _calculate_shares(amount, Member, shares)
           final_shares == calc.final_shares
           unknown == {i \in DOMAIN final_shares : final_shares[i].name \notin Range(Member)}
           expense_id == Len(Expenses) + 1
           err == IF calc.err # "" THEN calc.err
                  ELSE IF paid_by_name \notin Range(Member) THEN "PayerNotFound"
                  ELSE IF unknown # {} THEN "ParticipantNotFound"
                  ELSE ""
       IN  IF err # ""
           THEN /\ ret' = Ret("add_expense", "core", FALSE, err, 0, <<>>)
                /\ UNCHANGED <<Expenses, add_pc, lastrowid, pending_rows>>
           ELSE /\ Expenses' = Append(Expenses,
                       [expense_id |-> expense_id, amount |-> amount,
                        paid_by_id |-> MemberId(Member, paid_by_name)])
                /\ lastrowid' = expense_id
                /\ pending_rows' = splits_to_insert(expense_id, Member, final_shares)
                /\ add_pc' = "expense_inserted"
                /\ UNCHANGED ret
    /\ UNCHANGED <<Member, Splits, durableE, durableS>>
    /\ UNCHANGED <<reader_pc, read_expenses, read_splits>>
    /\ UNCHANGED settleVars

\* lines 135-141: executemany; on sqlite3.Error the except clause prints and
\* add_expense returns with its transaction open
add_expense_splits ==
    /\ add_pc = "expense_inserted"
    /\ LET ins == executemany(pending_rows)
       IN  /\ Splits' = Splits \o ins.inserted
           /\ IF ins.failed
              THEN /\ add_pc' = "idle"
                   /\ ret' = Ret("add_expense", "core", FALSE, "sqlite3.Error", 0, <<>>)
              ELSE /\ add_pc' = "splits_inserted"
                   /\ UNCHANGED ret
    /\ UNCHANGED <<Member, Expenses, durableE, durableS>>
    /\ UNCHANGED <<lastrowid, pending_rows, reader_pc, read_expenses, read_splits>>
    /\ UNCHANGED settleVars

\* line 143: conn.commit()
add_expense_commit ==
    /\ add_pc = "splits_inserted"
    /\ durableE' = Len(Expenses)
    /\ durableS' = Len(Splits)
    /\ add_pc' = "idle"
    /\ ret' = Ret("add_expense", "core", FALSE, "", 0, <<>>)
    /\ UNCHANGED <<Member, Expenses, Splits>>
    /\ UNCHANGED <<lastrowid, pending_rows, reader_pc, read_expenses, read_splits>>
    /\ UNCHANGED settleVars

\* tracker.close() (the end of a request under _with_tracker): what the
\* connection had not committed is discarded, and the next caller opens a
\* tracker of its own
close ==
    /\ add_pc = "idle"
    /\ Expenses' = Committed(Expenses, durableE)
    /\ Splits' = Committed(Splits, durableS)
    /\ UNCHANGED <<Member, durableE, durableS, ret>>
    /\ UNCHANGED connVars
    /\ UNCHANGED settleVars

\* GET /api/balances, get_net_balances lines 154-159: the query behind paid_df
balances_paid_query ==
    /\ reader_pc \in {"idle", "answered"}
    /\ read_expenses' = Committed(Expenses, durableE)
    /\ read_splits' = <<>>
    /\ reader_pc' = "paid_read"
    /\ UNCHANGED <<Member, Expenses, Splits, durableE, durableS, ret>>
    /\ UNCHANGED <<add_pc, lastrowid, pending_rows>>
    /\ UNCHANGED settleVars

\* get_net_balances lines 161-166: the query behind owed_df, and the answer
balances_owed_query ==
    /\ reader_pc = "paid_read"
    /\ read_splits' = <<Committed(Splits, durableS)>>
    /\ reader_pc' = "answered"
    /\ UNCHANGED <<Member, Expenses, Splits, durableE, durableS, ret>>
    /\ UNCHANGED <<add_pc, lastrowid, pending_rows, read_expenses>>
    /\ UNCHANGED settleVars

\* GET /api/expenses, list_expenses lines 179-181: rows = cursor.fetchall()
list_expenses_rows ==
    /\ reader_pc \in {"idle", "answered"}
    /\ read_expenses' = Reverse(Committed(Expenses, durableE))
    /\ read_splits' = <<>>
    /\ reader_pc' = "rows_fetched"
    /\ UNCHANGED <<Member, Expenses, Splits, durableE, durableS, ret>>
    /\ UNCHANGED <<add_pc, lastrowid, pending_rows>>
    /\ UNCHANGED settleVars

\* list_expenses lines 186-197: the SELECT of the splits of the next row, and
\* after the last row the answer
list_expenses_splits ==
    /\ reader_pc = "rows_fetched"
    /\ IF Len(read_splits) < Len(read_expenses)
       THEN LET row == read_expenses[Len(read_splits) + 1]
            IN  /\ read_splits' = Append(read_splits,
                       SelectSeq(Committed(Splits, durableS),
                                 LAMBDA r : r.expense_id = row.expense_id))
                /\ UNCHANGED reader_pc
       ELSE /\ reader_pc' = "answered"
            /\ UNCHANGED read_splits
    /\ UNCHANGED <<Member, Expenses, Splits, durableE, durableS, ret>>
    /\ UNCHANGED <<add_pc, lastrowid, pending_rows, read_expenses>>
    /\ UNCHANGED settleVars

----------------------------------------------------------------------------
\* calculate_settlements

\* the argument: one row per name, in the frame's order
BalanceFrames ==
    UNION {{[i \in 1..n |-> [name |-> NameSeq[i], net_balance |-> b[i]]] :
                b \in [1..n -> BalVals]} : n \in 0..MaxRows}

\* sort_values with ascending=True
sort_values_ascending(frame) ==
    LET n == Len(frame)
        perms == {p \in [1..n -> 1..n] :
                     /\ \A i, j \in 1..n : i # j => p[i] # p[j]
                     /\ \A i, j \in 1..n :
                            i < j => frame[p[i]].net_balance <= frame[p[j]].net_balance}
    IN  {[i \in 1..n |-> frame[p[i]]] : p \in perms}

\* sort_values(by='net_balance', ascending=False).to_dict('records'): the
\* default sort is not stable, so rows of equal net_balance come in any order
sort_values_descending(frame) ==
    LET n == Len(frame)
        perms == {p \in [1..n -> 1..n] :
                     /\ \A i, j \in 1..n : i # j => p[i] # p[j]
                     /\ \A i, j \in 1..n :
                            i < j => frame[p[i]].net_balance >= frame[p[j]].net_balance}
    IN  {[i \in 1..n |-> frame[p[i]]] : p \in perms}

AbsFrame(frame) ==
    [i \in DOMAIN frame |-> [frame[i] EXCEPT !.net_balance = Abs(frame[i].net_balance)]]

\* the sum measured against a threshold of 0.001 instead of 0.01
AbsSum_finer_threshold(frame) ==
    10 * SeqSum([i \in DOMAIN frame |-> Abs(frame[i].net_balance)])

\* balances_df['net_balance'].abs().sum()
AbsSum(frame) == SeqSum([i \in DOMAIN frame |-> Abs(frame[i].net_balance)])

SettleIdle ==
    /\ balances_df = <<>>
    /\ debtors_list = <<>>
    /\ creditors_list = <<>>
    /\ settlements = <<>>
    /\ pc = "idle"

\* frames of whole amounts for up to MaxWideRows members
WideFrames ==
    UNION {{[i \in 1..n |-> [name |-> NameSeq[i], net_balance |-> b[i]]] :
                b \in [1..n -> WideVals]} : n \in 0..MaxWideRows}

SettleInit ==
    /\ balances_df \in BalanceFrames
    /\ debtors_list = <<>>
    /\ creditors_list = <<>>
    /\ settlements = <<>>
    /\ pc = "start"

SettleInitWide ==
    /\ balances_df \in WideFrames
    /\ debtors_list = <<>>
    /\ creditors_list = <<>>
    /\ settlements = <<>>
    /\ pc = "start"

\* lines 260-271: the early return, or the two sorted queues
settle_start ==
    /\ pc = "start"
    /\ IF balances_df = <<>> \/ AbsSum(balances_df) < TOL
       THEN /\ pc' = "done"
            /\ UNCHANGED <<debtors_list, creditors_list>>
       ELSE LET debtors == AbsFrame(SelectSeq(balances_df, LAMBDA r : r.net_balance < 0))
                creditors == SelectSeq(balances_df, LAMBDA r : r.net_balance > 0)
            IN  /\ debtors_list' \in sort_values_descending(debtors)
                /\ creditors_list' \in sort_values_descending(creditors)
                /\ pc' = "loop"
    /\ settlements' = <<>>
    /\ UNCHANGED balances_df
    /\ UNCHANGED ledgerVars

\* the iteration without lines 290-291: an exhausted creditor stays at the
\* head of its queue
settle_iteration_keeps_creditor ==
    /\ pc = "loop"
    /\ debtors_list # <<>> /\ creditors_list # <<>>
    /\ LET debtor == debtors_list[1]
           creditor == creditors_list[1]
           settlement_amount == Min(debtor.net_balance, creditor.net_balance)
           debtor_left == debtor.net_balance - settlement_amount
           creditor_left == creditor.net_balance - settlement_amount
       IN  /\ settlements' = Append(settlements,
                  [from |-> debtor.name, to |-> creditor.name, amount |-> settlement_amount])
           /\ debtors_list' =
                  IF debtor_left < TOL THEN Tail(debtors_list)
                  ELSE [debtors_list EXCEPT ![1].net_balance = debtor_left]
           /\ creditors_list' = [creditors_list EXCEPT ![1].net_balance = creditor_left]
    /\ UNCHANGED <<balances_df, pc>>
    /\ UNCHANGED ledgerVars

\* lines 273-291: one iteration of the while loop
settle_iteration ==
    /\ pc = "loop"
    /\ debtors_list # <<>> /\ creditors_list # <<>>
    /\ LET debtor == debtors_list[1]
           creditor == creditors_list[1]
           settlement_amount == Min(debtor.net_balance, creditor.net_balance)
           debtor_left == debtor.net_balance - settlement_amount
           creditor_left == creditor.net_balance - settlement_amount
       IN  /\ settlements' = Append(settlements,
                  [from |-> debtor.name, to |-> creditor.name, amount |-> settlement_amount])
           /\ debtors_list' =
                  IF debtor_left < TOL THEN Tail(debtors_list)
                  ELSE [debtors_list EXCEPT ![1].net_balance = debtor_left]
           /\ creditors_list' =
                  IF creditor_left < TOL THEN Tail(creditors_list)
                  ELSE [creditors_list EXCEPT ![1].net_balance = creditor_left]
    /\ UNCHANGED <<balances_df, pc>>
    /\ UNCHANGED ledgerVars

\* line 293: the loop condition is false, return settlements
settle_return ==
    /\ pc = "loop"
    /\ debtors_list = <<>> \/ creditors_list = <<>>
    /\ pc' = "done"
    /\ UNCHANGED <<balances_df, debtors_list, creditors_list, settlements>>
    /\ UNCHANGED ledgerVars

----------------------------------------------------------------------------
\* the specifications

\* the JSON bodies: the well-formed ones, and one body for each way the
\* handler rejects a body before it calls the core
JsonBodies ==
    {[description |-> "Lunch", amount_tag |-> "number", amount |-> a,
      paid_by |-> p, shares |-> sh] : a \in Amounts, p \in Names, sh \in JsonShares}
    \cup {[description |-> d, amount_tag |-> t, amount |-> 30 * Dollar,
           paid_by |-> p, shares |-> SharesNone] :
            d \in {"Lunch", NoneVal}, t \in {"number", "null", "text"},
            p \in {"Alice", NoneVal}}

AddMember == \E name \in Names : add_member(name)

AddExpense ==
    \E amount \in Amounts, paid_by_name \in Names, shares \in CoreShares :
        add_expense(amount, paid_by_name, shares)

GetNetBalances == net_balances

CreateExpense ==
    \E body \in JsonBodies :
        create_expense(body.description, body.amount_tag, body.amount,
                       body.paid_by, body.shares)

Init == LedgerInit /\ SettleIdle

Next == AddMember \/ AddExpense \/ GetNetBalances \/ CreateExpense

Spec == Init /\ [][Next]_vars

\* a caller of the core whose add_expense runs statement by statement, and
\* GET requests on connections of their own in between; the caller runs one
\* operation at a time
WriterNames == Names \cup {"Charlie"}

AddMemberBetweenCalls ==
    /\ add_pc = "idle"
    /\ \E name \in WriterNames : add_member(name)

AddExpenseInsert ==
    \E amount \in Amounts, paid_by_name \in Names, shares \in CoreShares :
        add_expense_insert(amount, paid_by_name, shares)

NextConn ==
    \/ AddMemberBetweenCalls
    \/ AddExpenseInsert
    \/ add_expense_splits
    \/ add_expense_commit
    \/ close
    \/ balances_paid_query
    \/ balances_owed_query
    \/ list_expenses_rows
    \/ list_expenses_splits

SpecConn == Init /\ [][NextConn]_vars

\* calculate_settlements applied to every frame of BalanceFrames
InitSettle == LedgerInit /\ SettleInit

NextSettle == settle_start \/ settle_iteration \/ settle_return

SpecSettle == InitSettle /\ [][NextSettle]_vars

\* calculate_settlements applied to every frame of WideFrames
InitSettleWide == LedgerInit /\ SettleInitWide

SpecSettleWide == InitSettleWide /\ [][NextSettle]_vars

\* calculate_settlements is one sequential call: whenever it has a next
\* statement, the interpreter executes it
SpecSettleFair == SpecSettle /\ WF_vars(NextSettle)

----------------------------------------------------------------------------
\* what the claims speak of, computed from the tables row by row

RECURSIVE SetSum(_, _)
SetSum(S, f) ==
    IF S = {} THEN 0
    ELSE LET x == CHOOSE y \in S : TRUE IN f[x] + SetSum(S \ {x}, f)

\* what a member paid and owes according to the rows the tracker sees
TotalPaid(name) ==
    SetSum({i \in DOMAIN Expenses : Member[Expenses[i].paid_by_id] = name},
           [i \in DOMAIN Expenses |-> Expenses[i].amount])

TotalOwed(name) ==
    SetSum({i \in DOMAIN Splits : Member[Splits[i].member_id] = name},
           [i \in DOMAIN Splits |-> Splits[i].share_amount])

NetBalance(name) == TotalPaid(name) - TotalOwed(name)

DictTotal(shares) ==
    SetSum(DOMAIN shares.items, [i \in DOMAIN shares.items |-> shares.items[i].share])

InTransaction == durableE < Len(Expenses) \/ durableS < Len(Splits)

FailureKinds == {"NoMembers", "EmptyParticipants", "ShareMismatch", "InvalidShares",
                 "PayerNotFound", "ParticipantNotFound"}

----------------------------------------------------------------------------
\* C1: after any sequence of add_member and add_expense calls, the
\* net_balance values of the frame get_net_balances returns sum to zero
\* (within 0.01).
C1_NetBalancesSumToZero ==
    ret.op = "get_net_balances" =>
        Abs(SetSum(DOMAIN ret.value,
                   [i \in DOMAIN ret.value |-> ret.value[i].net_balance])) <= TOL

\* C2: in every store state, the share_amount values of the stored split
\* rows of every stored expense sum to the expense's amount (within 0.01).
C2_SplitsSumToAmount ==
    \A i \in 1..durableE :
        Abs(SetSum({j \in 1..durableS : Splits[j].expense_id = Expenses[i].expense_id},
                   [j \in DOMAIN Splits |-> Splits[j].share_amount])
            - Expenses[i].amount) <= TOL

\* C3: add_expense with a name->amount mapping whose values sum to something
\* that differs from amount by more than 0.01 fails with a share-mismatch
\* error and adds no expense row and no split row.
C3_MismatchFailsAndAddsNothing ==
    [][\A amount \in Amounts, paid_by_name \in Names, shares \in CoreShares :
          (/\ shares.kind = "dict"
           /\ Abs(DictTotal(shares) - amount) > TOL
           /\ add_expense(amount, paid_by_name, shares))
          => (/\ ret'.raised
              /\ ret'.err = "ShareMismatch"
              /\ Expenses' = Expenses
              /\ Splits' = Splits)]_vars

\* C4: whenever add_expense does not persist the expense for one of the
\* listed reasons, its caller observes a failure: the call raises, and
\* POST /api/expenses answers 400 rather than 201.
C4_FailureIsObserved ==
    (ret.op = "add_expense" /\ ret.err \in FailureKinds) =>
        IF ret.via = "http" THEN ret.status = 400 ELSE ret.raised

\* C5: add_expense is all-or-nothing: a call that succeeds leaves the
\* expense row and its split rows committed, a call that fails leaves the
\* connection rolled back to what was committed before, and so the commit of
\* a later operation makes no row of a failed add_expense durable.
C5_AddExpenseIsAtomic ==
    [][/\ (ret'.op = "add_expense" /\ ret'.via = "core" /\ ret'.err = "") =>
              ~InTransaction'
       /\ (ret'.op = "add_expense" /\ ret'.via = "core" /\ ret'.err # "") =>
              /\ Expenses' = SubSeq(Expenses, 1, durableE)
              /\ Splits' = SubSeq(Splits, 1, durableS)
              /\ durableE' = durableE /\ durableS' = durableS
       /\ (durableE' > durableE \/ durableS' > durableS) =>
              (ret'.op = "add_expense" /\ ret'.err = "")]_vars

\* C6: add_member of a name that is already a member does not fail the
\* caller and leaves the members, the expenses and the splits unchanged, and
\* the Member table never holds a name twice.
C6_AddMemberIsIdempotent ==
    [][/\ \A name \in Range(Member) :
              add_member(name) =>
                  /\ ~ret'.raised
                  /\ Member' = Member
                  /\ Expenses' = Expenses
                  /\ Splits' = Splits
       /\ \A i, j \in DOMAIN Member' : i # j => Member'[i] # Member'[j]]_vars

\* C7: get_net_balances returns exactly one row per member of the store,
\* members without any expense or split included (with zeros), and in every
\* row total_paid is the sum of the amounts of the expenses the member paid,
\* total_owed the sum of the member's shares, and net_balance their difference.
C7_OneRowPerMember ==
    ret.op = "get_net_balances" =>
        /\ Len(ret.value) = Len(Member)
        /\ {ret.value[i].name : i \in DOMAIN ret.value} = Range(Member)
        /\ \A i \in DOMAIN ret.value :
              /\ ret.value[i].total_paid = TotalPaid(ret.value[i].name)
              /\ ret.value[i].total_owed = TotalOwed(ret.value[i].name)
              /\ ret.value[i].net_balance = NetBalance(ret.value[i].name)

\* C7 happens: a frame with a member who paid something and a member without
\* any expense or split, who is listed with zeros
C7_Witness ==
    /\ ret.op = "get_net_balances"
    /\ \E i, j \in DOMAIN ret.value :
          /\ ret.value[i].total_paid > 0
          /\ TotalPaid(ret.value[j].name) = 0 /\ TotalOwed(ret.value[j].name) = 0
          /\ ret.value[j].net_balance = 0

----------------------------------------------------------------------------
\* the settlement claims

InitialBalance(name) ==
    LET i == CHOOSE k \in DOMAIN balances_df : balances_df[k].name = name
    IN  balances_df[i].net_balance

BalanceSum ==
    SetSum(DOMAIN balances_df, [i \in DOMAIN balances_df |-> balances_df[i].net_balance])

\* what the first n transfers moved from, and to, a member
PaidOut(name, n) ==
    SetSum({k \in 1..n : settlements[k].from = name},
           [k \in DOMAIN settlements |-> settlements[k].amount])

Received(name, n) ==
    SetSum({k \in 1..n : settlements[k].to = name},
           [k \in DOMAIN settlements |-> settlements[k].amount])

\* a member's net balance once all returned transfers are applied
Settled(name) ==
    InitialBalance(name) + PaidOut(name, Len(settlements))
        - Received(name, Len(settlements))

\* C9: for balances that sum to zero, calculate_settlements ends with both
\* queues empty, and applying the returned transfers brings every member's
\* net balance to zero (within 0.01).
C9_SettlesEveryBalance ==
    (pc = "done" /\ BalanceSum = 0) =>
        /\ debtors_list = <<>>
        /\ creditors_list = <<>>
        /\ \A i \in DOMAIN balances_df : Abs(Settled(balances_df[i].name)) <= TOL

\* C10: the transfers come in descending order of the debtors' initial
\* magnitude (all transfers of a larger debtor before all transfers of a
\* smaller one), each goes from a debtor to a creditor with amount
\* min(remaining debt, remaining credit), and Alice 50, Bob -20, Charlie -30
\* gives exactly Charlie->Alice 30, Bob->Alice 20.
C10_DescendingDebtorOrder ==
    pc = "done" =>
        /\ \A i, j \in DOMAIN settlements :
              InitialBalance(settlements[i].from) < InitialBalance(settlements[j].from)
                  => i < j
        /\ \A k \in DOMAIN settlements :
              LET t == settlements[k]
              IN  /\ InitialBalance(t.from) < 0
                  /\ InitialBalance(t.to) > 0
                  /\ t.amount = Min(0 - InitialBalance(t.from) - PaidOut(t.from, k - 1),
                                    InitialBalance(t.to) - Received(t.to, k - 1))
        /\ balances_df = <<[name |-> "Alice", net_balance |-> 50 * Dollar],
                           [name |-> "Bob", net_balance |-> 0 - 20 * Dollar],
                           [name |-> "Charlie", net_balance |-> 0 - 30 * Dollar]>>
              => settlements = <<[from |-> "Charlie", to |-> "Alice", amount |-> 30 * Dollar],
                                 [from |-> "Bob", to |-> "Alice", amount |-> 20 * Dollar]>>

\* C10 happens: the run on Alice 50, Bob -20, Charlie -30 has returned its
\* two transfers
C10_Witness ==
    /\ pc = "done"
    /\ Len(balances_df) = 3
    /\ balances_df[1].net_balance = 50 * Dollar
    /\ balances_df[2].net_balance = 0 - 20 * Dollar
    /\ balances_df[3].net_balance = 0 - 30 * Dollar
    /\ Len(settlements) = 2
    /\ settlements[1].from # settlements[2].from

\* the sum of the magnitudes of the balances handed to calculate_settlements
MagnitudeSum ==
    SetSum(DOMAIN balances_df,
           [i \in DOMAIN balances_df |-> Abs(balances_df[i].net_balance)])

\* C11: calculate_settlements never stops short of its return statement and
\* always reaches it, whatever the balances sum to; for an empty frame, and
\* for balances whose absolute values sum to less than 0.01, the list it
\* returns is empty.
C11_ReturnsAListForEveryFrame ==
    /\ [](pc # "done" => ENABLED NextSettle)
    /\ []((pc = "done" /\ (balances_df = <<>> \/ MagnitudeSum < TOL))
              => settlements = <<>>)
    /\ <>(pc = "done")

\* C11 happens: a debtor and a creditor whose magnitudes sum to less than
\* 0.01, and the returned list is empty
C11_Witness ==
    /\ pc = "done"
    /\ \E i, j \in DOMAIN balances_df :
          balances_df[i].net_balance < 0 /\ balances_df[j].net_balance > 0
    /\ MagnitudeSum < TOL
    /\ settlements = <<>>

\* the queues' joint length: the parties still to be settled
PartiesLeft == Len(debtors_list) + Len(creditors_list)

\* C15 as stated: calculate_settlements terminates, every loop iteration
\* removes at least one party from a queue, and a frame of n balances never
\* gets more than n - 1 transfers.
C15_AtMostNMinusOne ==
    /\ <>(pc = "done")
    /\ [][(pc = "loop" /\ pc' = "loop") => PartiesLeft' < PartiesLeft]_vars
    /\ [](Len(settlements) <= Len(balances_df) - 1)

\* C15, amended: the same for every frame of n >= 1 balances; the empty
\* frame gets no transfer.
C15_AtMostNMinusOneFromOneRow ==
    /\ <>(pc = "done")
    /\ [][(pc = "loop" /\ pc' = "loop") => PartiesLeft' < PartiesLeft]_vars
    /\ [](IF balances_df = <<>> THEN settlements = <<>>
          ELSE Len(settlements) <= Len(balances_df) - 1)

\* C15 happens: three balances, and the run has returned two transfers
C15_Witness ==
    /\ pc = "done"
    /\ Len(balances_df) = 3
    /\ Len(settlements) = Len(balances_df) - 1

\* C14: whenever the loop picks its debtor and its creditor, each has the
\* largest remaining magnitude of its queue.
C14_HeadsAreTheLargest ==
    (pc = "loop" /\ debtors_list # <<>> /\ creditors_list # <<>>) =>
        /\ \A k \in DOMAIN debtors_list :
              debtors_list[1].net_balance >= debtors_list[k].net_balance
        /\ \A k \in DOMAIN creditors_list :
              creditors_list[1].net_balance >= creditors_list[k].net_balance

\* the rows of the frame that owe, and those that are owed
DebtorRows == {i \in DOMAIN balances_df : balances_df[i].net_balance < 0}

CreditorRows == {i \in DOMAIN balances_df : balances_df[i].net_balance > 0}

\* the ways to settle by debtor-to-creditor transfers, at most one per pair,
\* of amounts that occur as a magnitude in the frame (0: no transfer)
TransferPlans ==
    [DebtorRows \X CreditorRows ->
        {0} \cup {Abs(balances_df[i].net_balance) : i \in DOMAIN balances_df}]

\* the plan zeroes every balance
PlanSettles(plan) ==
    /\ \A d \in DebtorRows :
          SetSum({d} \X CreditorRows, plan) = 0 - balances_df[d].net_balance
    /\ \A c \in CreditorRows :
          SetSum(DebtorRows \X {c}, plan) = balances_df[c].net_balance

PlanSize(plan) == Cardinality({pair \in DOMAIN plan : plan[pair] > 0})

\* C12: for balances that sum to zero, no set of debtor-to-creditor transfers
\* that zeroes every balance has fewer transfers than the list
\* calculate_settlements returns.
C12_FewestTransfers ==
    (pc = "done" /\ BalanceSum = 0) =>
        \A plan \in TransferPlans :
            PlanSettles(plan) => PlanSize(plan) >= Len(settlements)

\* C16: no committed row of Expenses has an amount <= 0, whether it was
\* stored through the core API or through POST /api/expenses.
C16_StoredAmountsArePositive ==
    \A i \in 1..durableE : Expenses[i].amount > 0

\* the split rows a request has read
SplitsRead == UNION {Range(read_splits[k]) : k \in DOMAIN read_splits}

\* C13: a request that reads the store on its own connection while
\* add_expense runs on another never gets an expense row without all the
\* split rows of that expense: the answer holds every row of
\* splits_to_insert of the call that inserted the expense.
C13_ExpenseSeenWithAllItsSplits ==
    reader_pc = "answered" =>
        \A i \in DOMAIN read_expenses :
            read_expenses[i].expense_id = lastrowid =>
                \A k \in DOMAIN pending_rows : SplitRow(pending_rows[k]) \in SplitsRead

====
